---- MODULE Spec2Model ----
(***************************************************************************)
(* State-machine model of apprise/plugins/NotifyViber.py: the NotifyViber  *)
(* adapter (constructor, send, url, parse_url).                            *)
(*                                                                         *)
(* Python strings are sequences of one-character strings.  Each statement  *)
(* is modelled with the meaning Python gives it: reading a local name      *)
(* before it is assigned raises UnboundLocalError, reading a name that no  *)
(* scope binds raises NameError, and an exception that no handler matches  *)
(* ends the call.  The dictionary literal at lines 181-193 lacks two       *)
(* commas; it is read as the mapping its keys and values denote.           *)
(***************************************************************************)
EXTENDS Integers, Sequences, FiniteSets, TLC

(***************************************************************************)
(* Bounds of the model.                                                    *)
(***************************************************************************)
MaxTargets == 3
MaxCalls == 2
LongSenderLen == 40

(***************************************************************************)
(* Values.                                                                 *)
(***************************************************************************)
\* Python's None: a sequence that is no string (its element is not a character)
None == << "<None>" >>
\* a local name that has not been assigned yet
Unbound == << "<unbound>" >>
\* the key is absent from a dict
NoKey == << "<nokey>" >>

CallIds == 1 .. MaxCalls

\* receiver identifiers used as targets ("=" is part of the vendor's id format)
TargetIds == { <<"a">>, <<"b", "=">>, <<"c", "/">> }
Tokens == { <<"k", "e", "y", "1">> }
\* a sender name longer than the vendor's limit
LongSender == [i \in 1 .. LongSenderLen |-> "b"]
Users == { None, <<"b", "o", "b">>, LongSender }
Avatars == { None, <<"h", "/", "x">> }
ImageUrls == { None, <<"h", "/", "i">> }
Bodies == { <<"h", "i">> }

\* NotifyBase.app_id (the process identity string)
app_id == <<"A", "p">>

RECURSIVE SeqsUpTo(_, _)
SeqsUpTo(S, n) ==
    IF n = 0 THEN { <<>> }
    ELSE LET shorter == SeqsUpTo(S, n - 1)
         IN  shorter \cup { Append(s, x) : s \in { t \in shorter : Len(t) = n - 1 }, x \in S }

TargetLists == SeqsUpTo(TargetIds, MaxTargets)

IsString(v) == v # None /\ v # Unbound /\ v # NoKey

\* a targets argument that was not given (targets=None)
NoList == << None >>

(***************************************************************************)
(* Names.  A name read in a method resolves in the method's locals, then   *)
(* in the module's globals, then in the builtins; otherwise NameError.     *)
(***************************************************************************)
ModuleGlobals ==
    { "six", "requests", "uuid4", "dumps", "NotifyBase", "NotifyType",
      "NotifyImageSize", "parse_list", "PrivacyMode", "_", "NotifyViber" }

Builtins == { "len", "str", "list", "isinstance", "super", "dict" }

\* the names send assigns somewhere in its body, hence its locals
SendLocals ==
    { "self", "body", "title", "notify_type", "kwargs", "has_error", "headers",
      "payload", "avatar", "targets", "target", "r", "status_str", "e" }

Resolves(name) == name \in ModuleGlobals \cup Builtins

(***************************************************************************)
(* Collaborators outside the file (base classes, utils).                   *)
(***************************************************************************)
\* URLBase.__init__: self.user as the base constructor leaves it when no
\* `user` reaches it (NotifyViber.__init__ binds `user` to its own parameter)
BaseUser == None

\* utils.parse_list on a list or on nothing: the identifiers in the given
\* order, nothing dropped or merged
parse_list(raw) == IF raw = NoList THEN <<>> ELSE raw

\* requests.codes.ok, requests.codes.created
StatusOk == 200
StatusCreated == 201

\* statuses the vendor may answer with
Statuses == { StatusOk, StatusCreated, 400, 500 }

\* what one requests.post can do: answer with a status, or raise
\* requests.RequestException
RequestException == [raised |-> TRUE, status |-> 0]
Outcomes == { [raised |-> FALSE, status |-> st] : st \in Statuses } \cup { RequestException }

(***************************************************************************)
(* __init__                                                                *)
(***************************************************************************)
MaxSenderLen == 28

Min(a, b) == IF a < b THEN a ELSE b

Whitespace == { " " }

RECURSIVE LStrip(_)
LStrip(s) == IF s # <<>> /\ Head(s) \in Whitespace THEN LStrip(Tail(s)) ELSE s

RECURSIVE RStrip(_)
RStrip(s) ==
    IF s # <<>> /\ s[Len(s)] \in Whitespace THEN RStrip(SubSeq(s, 1, Len(s) - 1)) ELSE s

\* str.strip()
Strip(s) == RStrip(LStrip(s))

\* s[0:n]
Slice0(s, n) == SubSeq(s, 1, Min(n, Len(s)))

NoAdapter ==
    [ok |-> FALSE, exc |-> "TypeError", token |-> None, user |-> None,
     targets |-> <<>>, include_image |-> TRUE, avatar |-> None, image_url |-> None]

\* line 129-130: the slice is taken of self.user (the base's value), not of
\* the `user` argument; subscripting None raises TypeError
StoreUser(user, baseUser) ==
    IF IsString(user)
    THEN IF IsString(baseUser)
         THEN [exc |-> "none", user |-> Strip(Slice0(baseUser, MaxSenderLen))]
         ELSE [exc |-> "TypeError", user |-> None]
    ELSE [exc |-> "none", user |-> app_id]

\* the list without the later copies of an identifier
RECURSIVE DropDuplicates(_)
DropDuplicates(list) ==
    IF list = <<>> THEN <<>>
    ELSE LET front == DropDuplicates(SubSeq(list, 1, Len(list) - 1))
             last == list[Len(list)]
         IN  IF \E i \in 1 .. Len(front) : front[i] = last THEN front
             ELSE Append(front, last)

\* the constructor stores the targets as a set would hold them
ConstructDropsDuplicates(token, user, targets, include_image, avatar, image_url) ==
    LET u == StoreUser(user, BaseUser)
    IN  IF u.exc # "none" THEN NoAdapter
        ELSE [ok |-> TRUE, exc |-> "none", token |-> token, user |-> u.user,
              targets |-> DropDuplicates(parse_list(targets)),
              include_image |-> include_image,
              avatar |-> avatar, image_url |-> image_url]

\* NotifyViber(token, user, targets, include_image); avatar and image_url
\* are what the base class and the asset resolver hold for this instance
Construct(token, user, targets, include_image, avatar, image_url) ==
    LET u == StoreUser(user, BaseUser)
    IN  IF u.exc # "none" THEN NoAdapter
        ELSE [ok |-> TRUE, exc |-> "none", token |-> token, user |-> u.user,
              targets |-> parse_list(targets), include_image |-> include_image,
              avatar |-> avatar, image_url |-> image_url]

(***************************************************************************)
(* State.                                                                  *)
(***************************************************************************)
VARIABLES
    adapter,    \* the NotifyViber instance: self.token, self.user, self.targets, ...
    calls,      \* the frame of each send call: its position and its locals
    events,     \* the calls made to the collaborators (throttle, transport), in order
    uuidCount,  \* how many values uuid4() has handed out
    urlOut,     \* what the last call of url() returned
    parsed,     \* what the last call of parse_url() returned, or that it raised
    given       \* the arguments the adapter was constructed with

vars == << adapter, calls, events, uuidCount, urlOut, parsed, given >>

IdleFrame ==
    [pc |-> "idle", result |-> "none", exc |-> "none", has_error |-> FALSE,
     payload |-> Unbound, targets |-> Unbound, target |-> Unbound]

(***************************************************************************)
(* send, lines 141-208: the empty check and the payload                    *)
(***************************************************************************)
min_api_version == 1

\* the resolver's image is tried before the explicit avatar
SenderAvatarResolverFirst(self) ==
    IF self.include_image
    THEN IF self.image_url # None /\ self.image_url # <<>>
         THEN self.image_url
         ELSE IF self.avatar # None /\ self.avatar # <<>> THEN self.avatar ELSE NoKey
    ELSE NoKey

\* lines 195-205: payload['sender']['avatar']
SenderAvatar(self) ==
    IF self.include_image
    THEN IF self.avatar # None /\ self.avatar # <<>>
         THEN self.avatar
         ELSE LET avatar == IF ~self.include_image THEN None ELSE self.image_url
              IN  IF avatar # None /\ avatar # <<>> THEN avatar ELSE NoKey
    ELSE NoKey

\* tracking_data without the uuid4() part
BuildPayloadNoUuid(self, body, uuid) ==
    [receiver |-> None,
     min_api_version |-> min_api_version,
     sender_name |-> IF self.user # None /\ self.user # <<>> THEN self.user ELSE app_id,
     sender_avatar |-> SenderAvatar(self),
     tracking_data |-> 0,
     type |-> "text",
     text |-> body]

\* lines 181-205
BuildPayload(self, body, uuid) ==
    [receiver |-> None,
     min_api_version |-> min_api_version,
     sender_name |-> IF self.user # None /\ self.user # <<>> THEN self.user ELSE app_id,
     sender_avatar |-> SenderAvatar(self),
     tracking_data |-> uuid,
     type |-> "text",
     text |-> body]

\* the empty check reads `self.targets is None`
NoTargetsIsNone(self) == self.targets = NoList

\* line 147
NoTargets(self) == Len(self.targets) = 0

\* lines 141-272: send assigns no attribute of self
SendSelf(self) == self

\* line 208: targets = list(self.targets)
CopyTargets(self) == self.targets

SendEnter(c) ==
    /\ adapter.ok
    /\ calls[c].pc = "idle"
    /\ \E body \in Bodies :
         IF NoTargets(adapter)
         THEN /\ calls' = [calls EXCEPT ![c] = [@ EXCEPT !.pc = "returned", !.result = "False"]]
              /\ UNCHANGED uuidCount
         ELSE /\ calls' = [calls EXCEPT ![c] =
                    [@ EXCEPT !.pc = "loop",
                              !.has_error = FALSE,
                              !.payload = BuildPayload(adapter, body, uuidCount + 1),
                              !.targets = CopyTargets(adapter)]]
              /\ uuidCount' = uuidCount + 1
    /\ adapter' = SendSelf(adapter)
    /\ UNCHANGED << events, urlOut, parsed, given >>

(***************************************************************************)
(* send, lines 210-272: the loop                                           *)
(***************************************************************************)
\* reading a name inside send
ReadInSend(name, value) ==
    IF name \in SendLocals
    THEN IF value = Unbound THEN "UnboundLocalError" ELSE "none"
    ELSE IF Resolves(name) THEN "none" ELSE "NameError"

\* line 211: target = target.pop().  The receiver of pop is the local
\* `target` itself, which no earlier statement assigns; were it bound, it
\* would be a string, which has no pop
PopStatement(target, targets) ==
    LET read == ReadInSend("target", target)
    IN  IF read # "none"
        THEN [exc |-> read, target |-> target, targets |-> targets]
        ELSE [exc |-> "AttributeError", target |-> target, targets |-> targets]

\* lines 235-243, 253-259, 262-265: the arguments of the three log messages
\* read `index` (and `batch_size`), which nothing binds
LogStatement == ReadInSend("index", Unbound)

\* line 228
StatusAccepted(status) == status \in { StatusOk, StatusCreated }

\* lines 220-270: what follows requests.post in one iteration.  An exception
\* other than requests.RequestException is not handled and ends the call.
HandleResponse(outcome, has_error) ==
    IF LogStatement # "none"
    THEN [exc |-> LogStatement, has_error |-> has_error]
    ELSE IF outcome.raised
         THEN [exc |-> "none", has_error |-> TRUE]
         ELSE IF ~StatusAccepted(outcome.status)
              THEN [exc |-> "none", has_error |-> TRUE]
              ELSE [exc |-> "none", has_error |-> has_error]

ThrottleEvent(c) ==
    [call |-> c, kind |-> "throttle", receiver |-> None, target |-> None,
     tracking_data |-> 0, outcome |-> RequestException]

\* lines 221-227: the request carries dumps(payload) as the payload is then
PostEvent(c, payload, target, outcome) ==
    [call |-> c, kind |-> "post", receiver |-> payload.receiver, target |-> target,
     tracking_data |-> payload.tracking_data, outcome |-> outcome]

\* one pass of `while targets:` for frame f, the transport answering outcome
LoopFrame(f, outcome) ==
    IF f.targets = <<>>
    THEN \* line 272
         [f EXCEPT !.pc = "returned", !.result = IF f.has_error THEN "False" ELSE "True"]
    ELSE LET p == PopStatement(f.target, f.targets)
         IN  IF p.exc # "none"
             THEN [f EXCEPT !.pc = "raised", !.exc = p.exc]
             ELSE LET h == HandleResponse(outcome, f.has_error)
                  IN  [f EXCEPT !.pc = IF h.exc # "none" THEN "raised" ELSE "loop",
                                !.exc = h.exc,
                                !.has_error = h.has_error,
                                !.target = p.target,
                                !.targets = p.targets]

\* the collaborator calls of that pass: throttle, then the request
LoopEvents(c, f, outcome) ==
    IF f.targets = <<>> THEN <<>>
    ELSE LET p == PopStatement(f.target, f.targets)
         IN  IF p.exc # "none" THEN <<>>
             ELSE << ThrottleEvent(c), PostEvent(c, f.payload, p.target, outcome) >>

LoopStep(c) ==
    /\ calls[c].pc = "loop"
    /\ \E outcome \in Outcomes :
         /\ calls' = [calls EXCEPT ![c] = LoopFrame(calls[c], outcome)]
         /\ events' = events \o LoopEvents(c, calls[c], outcome)
    /\ adapter' = SendSelf(adapter)
    /\ UNCHANGED << uuidCount, urlOut, parsed, given >>

(***************************************************************************)
(* Strings of URLs (URLBase.quote, unquote, urlencode, pprint)             *)
(***************************************************************************)
\* the characters quote() leaves as they are
Unreserved ==
    { "a", "b", "c", "e", "h", "i", "k", "o", "r", "t", "v", "x", "y", "A", "p", "1" }

\* the two hexadecimal digits of the characters quote() escapes
HexOf(ch) ==
    CASE ch = "/" -> <<"2", "F">>
      [] ch = "=" -> <<"3", "D">>
      [] ch = " " -> <<"2", "0">>
      [] ch = "@" -> <<"4", "0">>
      [] ch = "," -> <<"2", "C">>
      [] ch = "?" -> <<"3", "F">>
      [] ch = "&" -> <<"2", "6">>
      [] ch = ":" -> <<"3", "A">>
      [] ch = "*" -> <<"2", "A">>
      [] OTHER    -> <<"2", "5">>

Escaped == { "/", "=", " ", "@", ",", "?", "&", ":", "*", "%" }

\* the character a pair of hexadecimal digits stands for
CharOf(hex) ==
    IF \E ch \in Escaped : HexOf(ch) = hex
    THEN CHOOSE ch \in Escaped : HexOf(ch) = hex
    ELSE "?"

RECURSIVE quote(_, _)
quote(str, safe) ==
    IF str = <<>> THEN <<>>
    ELSE LET ch == Head(str)
         IN  (IF ch \in Unreserved \cup safe THEN <<ch>> ELSE <<"%">> \o HexOf(ch))
             \o quote(Tail(str), safe)

RECURSIVE unquote(_)
unquote(str) ==
    IF str = <<>> THEN <<>>
    ELSE IF Head(str) = "%" /\ Len(str) >= 3
              /\ \E ch \in Escaped : HexOf(ch) = SubSeq(str, 2, 3)
         THEN <<CharOf(SubSeq(str, 2, 3))>> \o unquote(SubSeq(str, 4, Len(str)))
         ELSE <<Head(str)>> \o unquote(Tail(str))

\* sep.join(parts)
RECURSIVE Join(_, _)
Join(parts, sep) ==
    IF parts = <<>> THEN <<>>
    ELSE IF Len(parts) = 1 THEN parts[1]
    ELSE parts[1] \o sep \o Join(Tail(parts), sep)

\* URLBase.pprint(content, privacy, mode=PrivacyMode.Secret, safe='')
SecretMask == <<"*", "*", "*", "*">>
pprint(content, privacy) == IF privacy THEN SecretMask ELSE quote(content, {})

\* URLBase.url_parameters(): the parameters every adapter re-emits; the
\* adapter's own `image` is not one of them
url_parameters == <<>>

\* URLBase.urlencode(params): key=value pairs joined with "&"
urlencode(params) ==
    Join([i \in 1 .. Len(params) |->
            quote(params[i].key, {}) \o <<"=">> \o quote(params[i].value, {})], <<"&">>)

(***************************************************************************)
(* url, lines 274-303                                                      *)
(***************************************************************************)
secure_protocol == <<"v", "i", "b", "e", "r">>

Truthy(v) == v # None /\ v # <<>>

\* lines 280-285
UrlParams(self) ==
    (IF Truthy(self.avatar)
     THEN << [key |-> <<"a", "v", "a", "t", "a", "r">>, value |-> self.avatar] >>
     ELSE <<>>) \o url_parameters

\* lines 288-292
UrlSender(self) ==
    IF Truthy(self.user) THEN quote(self.user, {}) \o <<"@">> ELSE <<>>

\* the targets quoted with quote()'s default safe character, "/"
UrlTargetsSafeSlash(self) ==
    Join([i \in 1 .. Len(self.targets) |-> quote(self.targets[i], {"/"})], <<"/">>)

\* line 300-301
UrlTargets(self) ==
    Join([i \in 1 .. Len(self.targets) |-> quote(self.targets[i], {"="})], <<"/">>)

\* the token printed without regard to privacy
urlUnmasked(self, privacy) ==
    secure_protocol \o <<":", "/", "/">> \o UrlSender(self) \o pprint(self.token, FALSE)
        \o <<"/">> \o UrlTargets(self) \o <<"?">> \o urlencode(UrlParams(self))

\* lines 294-303
url(self, privacy) ==
    secure_protocol \o <<":", "/", "/">> \o UrlSender(self) \o pprint(self.token, privacy)
        \o <<"/">> \o UrlTargets(self) \o <<"?">> \o urlencode(UrlParams(self))

(***************************************************************************)
(* parse_url, lines 305-338                                                *)
(***************************************************************************)
\* the first position of ch in str, 0 when it does not occur
RECURSIVE IndexFrom(_, _, _)
IndexFrom(str, ch, i) ==
    IF i > Len(str) THEN 0
    ELSE IF str[i] = ch THEN i ELSE IndexFrom(str, ch, i + 1)

IndexOf(str, ch) == IndexFrom(str, ch, 1)

\* str.split(ch)
RECURSIVE Split(_, _)
Split(str, ch) ==
    LET i == IndexOf(str, ch)
    IN  IF i = 0 THEN << str >>
        ELSE << SubSeq(str, 1, i - 1) >> \o Split(SubSeq(str, i + 1, Len(str)), ch)

NonEmpty(seg) == seg # <<>>

\* one key=value pair of a query string, unquoted
QueryPair(pair) ==
    LET i == IndexOf(pair, "=")
    IN  IF i = 0 THEN [key |-> unquote(pair), value |-> <<>>]
        ELSE [key |-> unquote(SubSeq(pair, 1, i - 1)),
              value |-> unquote(SubSeq(pair, i + 1, Len(pair)))]

\* the query string as a sequence of pairs
QueryPairs(query) ==
    LET parts == SelectSeq(Split(query, "&"), NonEmpty)
    IN  [i \in 1 .. Len(parts) |-> QueryPair(parts[i])]

\* qsd.get(key, NoKey): the last pair with that key wins
QsdGet(qsd, key) ==
    LET hits == { i \in 1 .. Len(qsd) : qsd[i].key = key }
    IN  IF hits = {} THEN NoKey
        ELSE qsd[CHOOSE i \in hits : \A j \in hits : j <= i].value

BaseParseFailure ==
    [ok |-> FALSE, user |-> None, host |-> <<>>, fullpath |-> <<>>, qsd |-> <<>>]

\* NotifyBase.parse_url(url, verify_host=False): schema://[user@]host[/fullpath][?query];
\* no result when the schema separator or the host is missing
BaseParseUrl(str) ==
    LET sep == <<":", "/", "/">>
        c == IndexOf(str, ":")
    IN  IF c = 0 \/ c + 2 > Len(str) \/ SubSeq(str, c, c + 2) # sep
        THEN BaseParseFailure
        ELSE LET rest == SubSeq(str, c + 3, Len(str))
                 q == IndexOf(rest, "?")
                 front == IF q = 0 THEN rest ELSE SubSeq(rest, 1, q - 1)
                 query == IF q = 0 THEN <<>> ELSE SubSeq(rest, q + 1, Len(rest))
                 s == IndexOf(front, "/")
                 authority == IF s = 0 THEN front ELSE SubSeq(front, 1, s - 1)
                 fullpath == IF s = 0 THEN <<>> ELSE SubSeq(front, s, Len(front))
                 a == IndexOf(authority, "@")
                 user == IF a = 0 THEN None ELSE unquote(SubSeq(authority, 1, a - 1))
                 host == IF a = 0 THEN authority
                         ELSE SubSeq(authority, a + 1, Len(authority))
             IN  IF host = <<>> THEN BaseParseFailure
                 ELSE [ok |-> TRUE, user |-> user, host |-> host,
                       fullpath |-> fullpath, qsd |-> QueryPairs(query)]

\* URLBase.split_path(path): the non-empty segments, unquoted
split_path(path) ==
    LET segs == SelectSeq(Split(path, "/"), NonEmpty)
    IN  [i \in 1 .. Len(segs) |-> unquote(segs[i])]

\* URLBase.parse_list on a string: the comma-separated identifiers in order
parse_list_string(str) == SelectSeq(Split(str, ","), NonEmpty)

\* utils.parse_bool(arg, default): what the name would compute were it imported
parse_bool_value(arg) ==
    IF arg = NoKey \/ arg = <<>> THEN TRUE ELSE Head(arg) \notin { "n", "f", "0" }

\* reading a global name inside parse_url (a static method with the locals
\* url and results)
ReadInParseUrl(name) ==
    IF name \in { "url", "results" } \/ Resolves(name) THEN "none" ELSE "NameError"

NoResults ==
    [exc |-> "none", ok |-> FALSE, token |-> None, user |-> None, targets |-> <<>>,
     include_image |-> TRUE]

\* parse_url without the early return of lines 314-316
parse_urlNoEarlyReturn(str) ==
    LET results == BaseParseUrl(str)
    IN  IF ReadInParseUrl("parse_bool") # "none"
        THEN [NoResults EXCEPT !.exc = ReadInParseUrl("parse_bool")]
        ELSE [exc |-> "none", ok |-> TRUE, token |-> unquote(results.host),
              user |-> results.user, targets |-> split_path(results.fullpath),
              include_image |->
                  parse_bool_value(QsdGet(results.qsd, <<"i", "m", "a", "g", "e">>))]

\* lines 313-338
parse_url(str) ==
    LET results == BaseParseUrl(str)
        to == QsdGet(results.qsd, <<"t", "o">>)
        pathTargets == split_path(results.fullpath)
        targets == IF to # NoKey /\ Len(to) # 0
                   THEN pathTargets \o parse_list_string(to)
                   ELSE pathTargets
    IN  IF ~results.ok THEN NoResults
        ELSE IF ReadInParseUrl("parse_bool") # "none"
             THEN [NoResults EXCEPT !.exc = ReadInParseUrl("parse_bool")]
             ELSE [exc |-> "none", ok |-> TRUE, token |-> unquote(results.host),
                   user |-> results.user, targets |-> targets,
                   include_image |->
                       parse_bool_value(QsdGet(results.qsd, <<"i", "m", "a", "g", "e">>))]

(***************************************************************************)
(* Calls of url and parse_url                                              *)
(***************************************************************************)
NoUrl == [made |-> FALSE, privacy |-> FALSE, text |-> <<>>]
NoParsed == [made |-> FALSE, of |-> "none", privacy |-> FALSE, text |-> <<>>, result |-> NoResults]

\* url stores the quoted targets back into self.targets
UrlSelfStoresQuoted(self) ==
    [self EXCEPT !.targets = [i \in 1 .. Len(self.targets) |-> quote(self.targets[i], {"="})]]

\* lines 274-303: url assigns no attribute of self
UrlSelf(self) == self

Url(privacy) ==
    /\ adapter.ok
    /\ urlOut' = [made |-> TRUE, privacy |-> privacy, text |-> url(adapter, privacy)]
    /\ adapter' = UrlSelf(adapter)
    /\ UNCHANGED << calls, events, uuidCount, parsed, given >>

\* parse_url applied to the URL that url() produced
ParseUrl ==
    /\ urlOut.made
    /\ parsed' = [made |-> TRUE, of |-> "url", privacy |-> urlOut.privacy,
                  text |-> urlOut.text, result |-> parse_url(urlOut.text)]
    /\ UNCHANGED << adapter, calls, events, uuidCount, urlOut, given >>

(***************************************************************************)
(* Specification.                                                          *)
(***************************************************************************)
\* the constructor's arguments, and what the base class and the resolver hold
Given(token, user, targets, include_image, avatar, image_url) ==
    [token |-> token, user |-> user, targets |-> targets,
     include_image |-> include_image, avatar |-> avatar, image_url |-> image_url]

Constructed(g) ==
    Construct(g.token, g.user, g.targets, g.include_image, g.avatar, g.image_url)

Init ==
    /\ given \in { Given(token, user, targets, include_image, avatar, image_url) :
                      token \in Tokens, user \in Users,
                      targets \in TargetLists \cup { NoList },
                      include_image \in BOOLEAN,
                      avatar \in Avatars, image_url \in ImageUrls }
    /\ adapter = Constructed(given)
    /\ calls = [c \in CallIds |-> IdleFrame]
    /\ events = <<>>
    /\ uuidCount = 0
    /\ urlOut = NoUrl
    /\ parsed = NoParsed

Next ==
    \/ \E c \in CallIds : SendEnter(c)
    \/ \E c \in CallIds : LoopStep(c)
    \/ \E privacy \in BOOLEAN : Url(privacy)
    \/ ParseUrl

Spec == Init /\ [][Next]_vars

(***************************************************************************)
(* The URL methods on their own: url on adapters whose credential also     *)
(* occurs among the targets, parse_url on URLs written by hand.            *)
(***************************************************************************)
\* a credential as long as the mask, and a longer one
UrlTokens == { <<"k", "e", "y", "1">>, <<"k", "e", "y", "h", "i">> }
UrlTargetIds == TargetIds \cup { <<"k", "e", "y", "h", "i">> }
UrlTargetLists == SeqsUpTo(UrlTargetIds, MaxTargets)

Scheme == secure_protocol \o <<":", "/", "/">>

\* URLs without a host
HostlessUrls ==
    { Scheme,
      Scheme \o <<"/", "a">>,
      Scheme \o <<"b", "@", "/", "a">>,
      <<"a", "/", "b">> }

\* URLs with a host: with and without path targets, with and without `to`
HostedUrls ==
    { Scheme \o <<"k", "/", "a">>,
      Scheme \o <<"k", "/", "c", "/", "a", "?", "t", "o", "=", "b", ",", "a">>,
      Scheme \o <<"k", "/", "a", "?", "t", "o", "=">>,
      Scheme \o <<"k", "?", "t", "o", "=", "b">>,
      Scheme \o <<"b", "@", "k", "/", "a", "/", "b", "%", "3", "D",
                  "?", "i", "m", "a", "g", "e", "=", "n", "o">> }

SampleUrls == HostlessUrls \cup HostedUrls

\* parse_url applied to a URL the user wrote
ParseGiven(text) ==
    /\ parsed' = [made |-> TRUE, of |-> "given", privacy |-> FALSE,
                  text |-> text, result |-> parse_url(text)]
    /\ UNCHANGED << adapter, calls, events, uuidCount, urlOut, given >>

InitUrl ==
    /\ given \in { Given(token, None, targets, include_image, avatar, None) :
                      token \in UrlTokens,
                      targets \in UrlTargetLists \cup { NoList },
                      include_image \in BOOLEAN,
                      avatar \in Avatars }
    /\ adapter = Constructed(given)
    /\ calls = [c \in CallIds |-> IdleFrame]
    /\ events = <<>>
    /\ uuidCount = 0
    /\ urlOut = NoUrl
    /\ parsed = NoParsed

NextUrl ==
    \/ \E privacy \in BOOLEAN : Url(privacy)
    \/ ParseUrl
    \/ \E text \in SampleUrls : ParseGiven(text)

SpecUrl == InitUrl /\ [][NextUrl]_vars

(***************************************************************************)
(* Properties.                                                             *)
(***************************************************************************)
IsPost(e) == e.kind = "post"
IsThrottle(e) == e.kind = "throttle"

\* the transport requests and the throttle calls of send call c, in order
PostsOf(c) == SelectSeq(events, LAMBDA e : e.call = c /\ IsPost(e))
ThrottlesOf(c) == SelectSeq(events, LAMBDA e : e.call = c /\ IsThrottle(e))

\* send call c is over: it returned, or an exception left it
Ended(c) == calls[c].pc \in { "returned", "raised" }

HasTargets == adapter.ok /\ adapter.targets # <<>>

\* the request was answered, with 200 or 201
DeliveredOutcome(o) == ~o.raised /\ StatusAccepted(o.status)

\* C1: a send call on N > 0 targets that is over has made exactly N
\* transport calls, whatever the outcomes were.
C1_OneTransportCallPerTarget ==
    \A c \in CallIds :
        (Ended(c) /\ HasTargets) => Len(PostsOf(c)) = Len(adapter.targets)

\* C2: a send call on a non-empty target list returns true if and only if
\* every transport call of it answered 200 or 201, and false otherwise.
C2_ResultIsAllDelivered ==
    \A c \in CallIds :
        (Ended(c) /\ HasTargets) =>
            /\ calls[c].result \in { "True", "False" }
            /\ calls[c].result = "True" <=>
                  \A i \in 1 .. Len(PostsOf(c)) : DeliveredOutcome(PostsOf(c)[i].outcome)

\* C3: with an empty target list, a send call that has begun has returned
\* false, and has called neither the transport nor throttle.
C3_EmptyTargetsReturnFalse ==
    \A c \in CallIds :
        (adapter.ok /\ adapter.targets = <<>> /\ calls[c].pc # "idle") =>
            /\ calls[c].pc = "returned"
            /\ calls[c].result = "False"
            /\ PostsOf(c) = <<>>
            /\ ThrottlesOf(c) = <<>>

C3_Witness ==
    \E c \in CallIds :
        adapter.ok /\ adapter.targets = <<>> /\ calls[c].pc = "returned"

\* C4: in a send call that is over, the i-th transport call was for the
\* i-th configured target, for every i from the first target to the last.
C4_TargetsAttemptedInOrder ==
    \A c \in CallIds :
        (Ended(c) /\ HasTargets) =>
            /\ Len(PostsOf(c)) = Len(adapter.targets)
            /\ \A i \in 1 .. Len(adapter.targets) :
                   PostsOf(c)[i].target = adapter.targets[i]

\* C5: every transport request carries its own target as `receiver`, never
\* None or another target's: once a send call is over, each configured
\* target has been sent a request whose receiver is that target.
C5_ReceiverIsTheTarget ==
    \A c \in CallIds :
        /\ \A i \in 1 .. Len(PostsOf(c)) :
               /\ PostsOf(c)[i].receiver # None
               /\ PostsOf(c)[i].receiver = PostsOf(c)[i].target
        /\ (Ended(c) /\ HasTargets) =>
               \A i \in 1 .. Len(adapter.targets) :
                   \E j \in 1 .. Len(PostsOf(c)) :
                       PostsOf(c)[j].receiver = adapter.targets[i]

\* C7: a send call ends by returning a boolean; no exception reaches the
\* caller.
C7_SendEndsByReturningBoolean ==
    \A c \in CallIds :
        Ended(c) => calls[c].pc = "returned" /\ calls[c].result \in { "True", "False" }

\* the adapter built from what parse_url returned
Reparsed ==
    Construct(parsed.result.token, parsed.result.user, parsed.result.targets,
              parsed.result.include_image, adapter.avatar, adapter.image_url)

\* C8: parsing the URL that url() produced with privacy off gives back the
\* configuration: same credential, sender, targets in order, include_image.
C8_UrlRoundTrip ==
    (parsed.made /\ parsed.of = "url" /\ ~parsed.privacy) =>
        /\ parsed.result.exc = "none"
        /\ parsed.result.ok
        /\ Reparsed.ok
        /\ Reparsed.token = adapter.token
        /\ Reparsed.user = adapter.user
        /\ Reparsed.targets = adapter.targets
        /\ Reparsed.include_image = adapter.include_image

\* C9: no step of send or url changes the adapter's credential, sender,
\* target list or include_image.
C9_ConfigurationImmutable == [][adapter' = adapter]_vars

C9_Witness ==
    /\ HasTargets
    /\ urlOut.made
    /\ \E c \in CallIds : Ended(c)

\* C10: a send call that has begun either has returned with every target
\* attempted, or is in its loop and can take its next step.
C10_SendRunsToCompletion ==
    \A c \in CallIds :
        calls[c].pc # "idle" =>
            \/ /\ calls[c].pc = "returned"
               /\ HasTargets => Len(PostsOf(c)) = Len(adapter.targets)
            \/ /\ calls[c].pc = "loop"
               /\ ENABLED LoopStep(c)

\* C12: a constructed adapter stores a sender of at most 28 characters: the
\* first 28 characters of the configured name, or the process identity
\* string when no name was configured.
C12_SenderStoredTruncated ==
    /\ IsString(given.user) =>
           /\ adapter.ok
           /\ Len(adapter.user) <= MaxSenderLen
           /\ adapter.user = Slice0(given.user, MaxSenderLen)
    /\ given.user = None => adapter.ok /\ adapter.user = app_id

PayloadBuilt(c) ==
    \/ calls[c].pc \in { "loop", "raised" }
    \/ calls[c].pc = "returned" /\ HasTargets

\* C11: when two send calls on the same adapter are both over, each has
\* made exactly one transport call per configured target and its result is
\* decided by the outcomes of its own transport calls.
C11_InterleavedCallsIndependent ==
    \A c1 \in CallIds : \A c2 \in CallIds \ { c1 } :
        (Ended(c1) /\ Ended(c2) /\ HasTargets) =>
            \A c \in { c1, c2 } :
                /\ Len(PostsOf(c)) = Len(adapter.targets)
                /\ calls[c].result =
                       IF \A i \in 1 .. Len(PostsOf(c)) : DeliveredOutcome(PostsOf(c)[i].outcome)
                       THEN "True" ELSE "False"

\* C13: in the payload send builds, sender.avatar is absent when
\* include_image is false; it is the explicit avatar when both avatars are
\* available, the resolver's when only that one is, and absent when neither is.
C13_AvatarPrecedence ==
    \A c \in CallIds :
        PayloadBuilt(c) =>
            LET got == calls[c].payload.sender_avatar
                explicit == Truthy(adapter.avatar)
                resolved == Truthy(adapter.image_url)
            IN  /\ ~adapter.include_image => got = NoKey
                /\ (adapter.include_image /\ explicit /\ resolved) => got = adapter.avatar
                /\ (adapter.include_image /\ ~explicit /\ resolved) => got = adapter.image_url
                /\ (adapter.include_image /\ ~explicit /\ ~resolved) => got = NoKey

C13_Witness ==
    \E c \in CallIds :
        /\ PayloadBuilt(c)
        /\ adapter.include_image
        /\ Truthy(adapter.avatar)
        /\ Truthy(adapter.image_url)
        /\ calls[c].payload.sender_avatar = adapter.avatar

Contains(str, sub) ==
    \E i \in 1 .. (Len(str) - Len(sub) + 1) : SubSeq(str, i, i + Len(sub) - 1) = sub

\* C15 as stated: the URL produced with privacy on does not contain a
\* credential that is longer than the mask.
C15_MaskedUrlHidesCredential ==
    (urlOut.made /\ urlOut.privacy /\ Len(adapter.token) > Len(SecretMask)) =>
        ~Contains(urlOut.text, adapter.token)

\* C15, amended: the host component of the URL produced with privacy on is
\* the mask, and so does not contain a credential longer than the mask.
C15_MaskedHostHidesCredential ==
    (urlOut.made /\ urlOut.privacy) =>
        LET host == BaseParseUrl(urlOut.text).host
        IN  /\ host = SecretMask
            /\ Len(adapter.token) > Len(SecretMask) => ~Contains(host, adapter.token)

C15_Witness ==
    /\ urlOut.made
    /\ urlOut.privacy
    /\ Len(adapter.token) > Len(SecretMask)
    /\ \E i \in 1 .. Len(adapter.targets) : adapter.targets[i] = adapter.token
    /\ BaseParseUrl(urlOut.text).host = SecretMask

\* C16: for a URL with a host, parse_url returns the path segments in path
\* order followed by the identifiers of `to`; without `to`, or with an
\* empty one, the path segments alone.
C16_ToTargetsAfterPathTargets ==
    (parsed.made /\ parsed.text \in HostedUrls) =>
        LET base == BaseParseUrl(parsed.text)
            to == QsdGet(base.qsd, <<"t", "o">>)
        IN  /\ parsed.result.exc = "none"
            /\ parsed.result.ok
            /\ parsed.result.targets =
                   split_path(base.fullpath)
                       \o (IF to = NoKey THEN <<>> ELSE parse_list_string(to))

PathSegments(text) == SelectSeq(Split(BaseParseUrl(text).fullpath, "/"), NonEmpty)

\* how often ch occurs in str
Count(str, ch) == Cardinality({ i \in 1 .. Len(str) : str[i] = ch })

\* C19: the URL url() produces has one path segment per target; in it "="
\* stands unencoded and "/" stands as %2F.
C19_TargetsEncodedButEquals ==
    urlOut.made =>
        LET segs == PathSegments(urlOut.text)
        IN  /\ Len(segs) = Len(adapter.targets)
            /\ \A i \in 1 .. Len(segs) :
                   /\ unquote(segs[i]) = adapter.targets[i]
                   /\ Count(segs[i], "=") = Count(adapter.targets[i], "=")
                   /\ ~Contains(segs[i], <<"%", "3", "D">>)
                   /\ Count(adapter.targets[i], "/") > 0 =>
                          Contains(segs[i], <<"%", "2", "F">>)

C19_Witness ==
    /\ urlOut.made
    /\ \E i \in 1 .. Len(adapter.targets) : adapter.targets[i] = <<"b", "=">>
    /\ \E i \in 1 .. Len(adapter.targets) : adapter.targets[i] = <<"c", "/">>
    /\ Len(PathSegments(urlOut.text)) = Len(adapter.targets)

====
